---- MODULE Spec2Model ----
(***************************************************************************)
(* Model of `rewrite` (src/src/main.rs): run a command with the target     *)
(* file on stdin and a scratch file on stdout, then rename the scratch     *)
(* file over the target if the command exited with code 0.                 *)
(*                                                                         *)
(* The file system is modelled in two levels, as the code depends on the   *)
(* difference: `dirents` maps a path to the inode found there, `inodes`    *)
(* holds content and permission bits.  Handles (the opened target, the     *)
(* scratch file and its duplicate) refer to inodes, paths to dirents.      *)
(* Option<T> values are modelled as sets: None is {} and Some(x) is {x}.   *)
(***************************************************************************)
EXTENDS Integers, Sequences, FiniteSets, TLC

\* ---------------------------------------------------------------- bounds
MaxLen == 2          \* most bytes the child writes to its stdout
MaxOrigLen == 1      \* most bytes the target holds before the run
MaxCmdLen == 2       \* most words of the command vector
MaxExitCode == 2     \* largest exit code the child uses

\* ------------------------------------------------------------- constants
PanicExitCode == 101 \* exit status of a Rust process whose main thread panics
ExitWidth == 256     \* exit(3) hands the parent the low 8 bits of the code

Bytes == {"a", "b"}
OrigContents == UNION {[1..k -> {"a"}] : k \in 0..MaxOrigLen}
Words == {"tr"}
Commands == UNION {[1..k -> Words] : k \in 0..MaxCmdLen}
Perms == {"rw-------", "rw-r--r--"}
TempPerm == "rw-------"      \* mode of a file made by tempfile
Signals == {9, 15}
ExitCodes == 0..MaxExitCode

ParentDir == "parent"        \* path.parent()
SysTempDir == "sys_temp"     \* env::temp_dir()
ExplicitDir == "given"       \* the value of --dir
Dirs == {ParentDir, SysTempDir, ExplicitDir}
FileName == "f"              \* path.file_name()
StdinData == <<"b">>         \* the bytes waiting on the inherited standard input
TargetPath == <<ParentDir, FileName>>

VARIABLES
    opt,                 \* the parsed options (struct Opt)
    pc,                  \* position of the control thread in run / main
    dirents,             \* path -> inode id found at that path, or "none"
    inodes,              \* inode id -> [content, perm, live]
    before,              \* content and permissions of the target before the run
    file_permissions,    \* run's snapshot of the target's permissions
    scratch_file,        \* the NamedTempFile: its path and who owns it
    constructed_command, \* run's constructed_command vector
    child,               \* the child process
    result,              \* what run returned
    code,                \* main's local `code`
    message,             \* what main printed to standard error
    exitCode,            \* the exit status of the process, {} while it runs
    failed,              \* history: the system call that failed, "" if none did
    first_run,           \* {} in the first run of the tool; in a second run on
                         \* the same target, how the first one left it
    file,                \* run's handle `file`: the inode it opened, or "none"
    other                \* with two runs at once: the locals of the run that is
                         \* not taking a step now; {} with a single run

vars == <<opt, pc, dirents, inodes, before, file_permissions, scratch_file,
          constructed_command, child, result, code, message, exitCode, failed,
          first_run, file, other>>

\* ------------------------------------------------------------------ Opt
\* The fields of Opt that run reads. sibling_dir is read nowhere: it acts at
\* parse time only, by overriding --dir, and every value of `dir` is drawn here.
\* required_unless = "stdin": the command may be empty only with --stdin.
ParserAccepts(o) == o.command # <<>> \/ o.stdin

Opts ==
    {o \in [no_op : BOOLEAN, no_env : BOOLEAN, temp_dir : BOOLEAN,
            dir : {{}, {ExplicitDir}}, shell_mode : BOOLEAN,
            drop_root : BOOLEAN, stdin : BOOLEAN, command : Commands] :
        ParserAccepts(o)}

\* ------------------------------------------------------------- helpers
\* The scratch file's name: prefix, random part, "-" and the target's name.
ScratchName == ".rewrite-tmp-" \o "XXXXXX" \o "-" \o FileName
ScratchPath(d) == <<d, ScratchName>>
AllPaths == {TargetPath} \cup {ScratchPath(d) : d \in Dirs}

\* Variant: an explicit directory wins over the system-temp flag.
DirPath_DirFirst(o) ==
    IF o.dir # {} THEN CHOOSE d \in o.dir : TRUE
    ELSE IF o.temp_dir THEN SysTempDir
    ELSE ParentDir

\* "Get the desired directory"
DirPath(o) ==
    IF o.temp_dir THEN SysTempDir
    ELSE IF o.dir # {} THEN CHOOSE d \in o.dir : TRUE
    ELSE ParentDir

\* opt.command.iter().join_with(' ').to_string()
RECURSIVE JoinWith(_)
JoinWith(cmd) ==
    IF cmd = <<>> THEN ""
    ELSE IF Len(cmd) = 1 THEN cmd[1]
    ELSE cmd[1] \o " " \o JoinWith(Tail(cmd))

\* The command vector run builds: sudo prefix, then sh -c or the words.
ConstructedCommand(o, username) ==
    (IF o.drop_root THEN <<"sudo", "--user", username, "--">> ELSE <<>>)
    \o (IF o.shell_mode THEN <<"sh", "-c", JoinWith(o.command)>> ELSE o.command)

\* Variant: REWRITE_INPUT names the target in stdin mode too.
ChildEnv_InputPath(o, sf) ==
    IF o.no_env THEN {}
    ELSE {<<"REWRITE_TEMPFILE", p>> : p \in sf.path}
         \cup {<<"REWRITE_OUTPUT", TargetPath>>}
         \cup {<<"REWRITE_INPUT", TargetPath>>}

\* REWRITE_* variables given to the child.
ChildEnv(o, sf) ==
    IF o.no_env THEN {}
    ELSE {<<"REWRITE_TEMPFILE", p>> : p \in sf.path}
         \cup {<<"REWRITE_OUTPUT", TargetPath>>}
         \cup {<<"REWRITE_INPUT", IF o.stdin THEN <<"-">> ELSE TargetPath>>}

\* Variant: the two stdin sources are taken the wrong way round.
ChildStdin_Swapped(o) == IF o.stdin THEN "target_file" ELSE "inherit"

\* The child's stdin: inherited in stdin mode, else the opened target.
ChildStdin(o) == IF o.stdin THEN "inherit" ELSE "target_file"

\* unlink(2) of a path
Unlink(d, p) == [q \in DOMAIN d |-> IF q = p THEN "none" ELSE d[q]]

\* Variant: the two paths of the rename are swapped.
Rename_Swapped(d, from, to) ==
    [q \in DOMAIN d |-> IF q = from THEN d[to] ELSE IF q = to THEN "none" ELSE d[q]]

\* rename(2): `to` names the inode `from` named, `from` names nothing.
Rename(d, from, to) ==
    [q \in DOMAIN d |-> IF q = to THEN d[from] ELSE IF q = from THEN "none" ELSE d[q]]

\* Variant: dropping the NamedTempFile leaves the path in place.
DropTemp_Leak(d, sf, owner) == d

\* Drop of the NamedTempFile by its owner: remove the path, ignoring errors.
DropTemp(d, sf, owner) ==
    IF sf.owner = owner
    THEN [q \in DOMAIN d |-> IF q \in sf.path THEN "none" ELSE d[q]]
    ELSE d

Dropped(sf, owner) == IF sf.owner = owner THEN [sf EXCEPT !.owner = "gone"] ELSE sf

NoChild ==
    [state |-> "none", argv |-> <<>>, env |-> {}, stdin |-> "none",
     stdout |-> "none", stderr |-> "none", written |-> <<>>,
     unlinked |-> FALSE, status |-> [code |-> {}, signal |-> {}]]

Pending == [tag |-> "Pending", code |-> {}, err |-> "", signal |-> {}, dir |-> {}]
Ok(n) == [tag |-> "Ok", code |-> {n}, err |-> "", signal |-> {}, dir |-> {}]
Err(e) == [tag |-> "Err", code |-> {}, err |-> e, signal |-> {}, dir |-> {}]
ErrSignal(s) == [tag |-> "Err", code |-> {}, err |-> "Signal", signal |-> s, dir |-> {}]
ErrCreateTemp(d) == [tag |-> "Err", code |-> {}, err |-> "CreateTemp", signal |-> {}, dir |-> {d}]
Panicked == [tag |-> "Panic", code |-> {}, err |-> "No command was given", signal |-> {}, dir |-> {}]

\* What the target path holds, for anyone who opens it now.
TargetExists == dirents[TargetPath] # "none"
TargetFile == inodes[dirents[TargetPath]]
ScratchPresent == \E p \in scratch_file.path : dirents[p] # "none"

\* ----------------------------------------------------------------- Init
Init ==
    /\ opt \in Opts
    /\ pc = "open"
    /\ \E present \in BOOLEAN, c \in OrigContents, m \in Perms :
        /\ dirents = [p \in AllPaths |->
                        IF p = TargetPath /\ present THEN "orig" ELSE "none"]
        /\ inodes = [i \in {"orig", "tmp"} |->
                        IF i = "orig" /\ present
                        THEN [content |-> c, perm |-> m, live |-> TRUE]
                        ELSE [content |-> <<>>, perm |-> TempPerm, live |-> FALSE]]
        /\ before = [exists |-> present,
                     content |-> IF present THEN c ELSE <<>>,
                     perm |-> IF present THEN m ELSE TempPerm]
    /\ file_permissions = {}
    /\ scratch_file = [path |-> {}, owner |-> "none"]
    /\ constructed_command = <<>>
    /\ child = NoChild
    /\ result = Pending
    /\ code = {}
    /\ message = ""
    /\ exitCode = {}
    /\ failed = ""
    /\ first_run = {}
    /\ file = "none"
    /\ other = {}

\* Variant: the scratch file is closed explicitly on return, and a path
\* that is already gone is reported as an error in place of the result.
Return_Close(res) ==
    /\ result' = (IF scratch_file.owner = "run" /\ ~ScratchPresent
                  THEN Err("CloseTemp") ELSE res)
    /\ pc' = "main"
    /\ dirents' = DropTemp(dirents, scratch_file, "run")
    /\ scratch_file' = Dropped(scratch_file, "run")

\* run returns `res`: its locals are dropped, the scratch file among them
\* when run still owns it.
Return(res) ==
    /\ result' = res
    /\ pc' = "main"
    /\ dirents' = DropTemp(dirents, scratch_file, "run")
    /\ scratch_file' = Dropped(scratch_file, "run")

\* ------------------------------------------------------------------ run
\* Variant: the target is opened with create(true).
Open_Create ==
    /\ pc = "open"
    /\ \E ok \in BOOLEAN :
        IF ok
        THEN /\ pc' = "metadata"
             /\ file' = "orig"
             /\ dirents' = [dirents EXCEPT ![TargetPath] = "orig"]
             /\ inodes' = [inodes EXCEPT !["orig"].live = TRUE]
             /\ UNCHANGED <<result, scratch_file, failed>>
        ELSE /\ result' = Err("Open")
             /\ pc' = "main"
             /\ failed' = "open"
             /\ UNCHANGED <<file, dirents, inodes, scratch_file>>
    /\ UNCHANGED <<first_run, other, opt, before, file_permissions, constructed_command,
                   child, code, message, exitCode>>

\* OpenOptions::new().read(true).write(true).create(false).open(path)
Open ==
    /\ pc = "open"
    /\ \E ok \in BOOLEAN :
        IF ok /\ TargetExists
        THEN /\ pc' = "metadata"
             /\ file' = dirents[TargetPath]
             /\ UNCHANGED <<result, dirents, scratch_file, failed>>
        ELSE /\ Return(Err("Open"))
             /\ failed' = "open"
             /\ UNCHANGED file
    /\ UNCHANGED <<first_run, other, opt, inodes, before, file_permissions, constructed_command,
                   child, code, message, exitCode>>

\* file.metadata()?.permissions()
Metadata ==
    /\ pc = "metadata"
    /\ \E ok \in BOOLEAN :
        IF ok
        THEN /\ file_permissions' = {inodes[file].perm}
             /\ pc' = "create_temp"
             /\ UNCHANGED <<result, dirents, scratch_file, failed>>
        ELSE /\ Return(Err("GetPermissions"))
             /\ failed' = "metadata"
             /\ UNCHANGED file_permissions
    /\ UNCHANGED <<first_run, other, file, opt, inodes, before, constructed_command, child, code,
                   message, exitCode>>

\* TempFileBuilder ... .tempfile_in(dir_path)
CreateTemp ==
    /\ pc = "create_temp"
    /\ LET dir_path == DirPath(opt) IN
       \E ok \in BOOLEAN :
        IF ok
        THEN /\ inodes' = [inodes EXCEPT !["tmp"] =
                             [content |-> <<>>, perm |-> TempPerm, live |-> TRUE]]
             /\ dirents' = [dirents EXCEPT ![ScratchPath(dir_path)] = "tmp"]
             /\ scratch_file' = [path |-> {ScratchPath(dir_path)}, owner |-> "run"]
             /\ pc' = "dup"
             /\ UNCHANGED <<result, failed>>
        ELSE /\ Return(ErrCreateTemp(dir_path))
             /\ failed' = "create_temp"
             /\ UNCHANGED inodes
    /\ UNCHANGED <<first_run, other, file, opt, before, file_permissions, constructed_command, child,
                   code, message, exitCode>>

\* scratch_file.as_file().try_clone()
DupTemp ==
    /\ pc = "dup"
    /\ \E ok \in BOOLEAN :
        IF ok
        THEN /\ pc' = "build"
             /\ UNCHANGED <<result, dirents, scratch_file, failed>>
        ELSE /\ Return(Err("DupTemp"))
             /\ failed' = "dup"
    /\ UNCHANGED <<first_run, other, file, opt, inodes, before, file_permissions, constructed_command,
                   child, code, message, exitCode>>

\* Build the command; cmd_iter.next().expect("No command was given") panics
\* on an empty vector: the stack unwinds, dropping the scratch file, and the
\* process ends with the panic status.
BuildCommand ==
    /\ pc = "build"
    /\ \E sudo_user \in {{}, {"alice"}} :
        IF opt.drop_root /\ sudo_user = {}
        THEN /\ Return(Err("NoSudoUser"))
             /\ failed' = "sudo_user"
             /\ UNCHANGED <<constructed_command, exitCode>>
        ELSE LET cc == ConstructedCommand(opt, "alice") IN
             /\ constructed_command' = cc
             /\ UNCHANGED failed
             /\ IF cc = <<>>
                THEN /\ result' = Panicked
                     /\ dirents' = DropTemp(dirents, scratch_file, "run")
                     /\ scratch_file' = Dropped(scratch_file, "run")
                     /\ exitCode' = {PanicExitCode}
                     /\ pc' = "exited"
                ELSE /\ pc' = "spawn"
                     /\ UNCHANGED <<result, dirents, scratch_file, exitCode>>
    /\ UNCHANGED <<first_run, other, file, opt, inodes, before, file_permissions, child, code, message>>

\* command.env(..), .stdin(..), .stdout(..), .stderr(..) and the spawn half
\* of command.status()
Spawn ==
    /\ pc = "spawn"
    /\ \E ok \in BOOLEAN :
        IF ok
        THEN /\ child' = [NoChild EXCEPT
                            !.state = "running",
                            !.argv = constructed_command,
                            !.env = ChildEnv(opt, scratch_file),
                            !.stdin = ChildStdin(opt),
                            !.stdout = "scratch_dup",
                            !.stderr = "inherit"]
             /\ pc' = "wait"
             /\ UNCHANGED <<result, dirents, scratch_file, failed>>
        ELSE /\ Return(Err("SpawnChild"))
             /\ failed' = "spawn"
             /\ UNCHANGED child
    /\ UNCHANGED <<first_run, other, file, opt, inodes, before, file_permissions, constructed_command,
                   code, message, exitCode>>

\* ------------------------------------------------------------ the child
\* The child writes a byte to its stdout, the duplicate of the scratch handle.
ChildWrite ==
    /\ child.state = "running"
    /\ Len(child.written) < MaxLen
    /\ \E b \in Bytes :
        /\ inodes' = [inodes EXCEPT !["tmp"].content = Append(@, b)]
        /\ child' = [child EXCEPT !.written = Append(@, b)]
    /\ UNCHANGED <<first_run, other, file, opt, pc, dirents, before, file_permissions, scratch_file,
                   constructed_command, result, code, message, exitCode, failed>>

\* The child removes the path it was given in REWRITE_TEMPFILE.
ChildUnlink ==
    /\ child.state = "running"
    /\ \E e \in child.env :
        /\ e[1] = "REWRITE_TEMPFILE"
        /\ dirents[e[2]] # "none"
        /\ dirents' = Unlink(dirents, e[2])
    /\ child' = [child EXCEPT !.unlinked = TRUE]
    /\ UNCHANGED <<first_run, other, file, opt, pc, inodes, before, file_permissions, scratch_file,
                   constructed_command, result, code, message, exitCode, failed>>

\* The child ends: with an exit code, or killed by a signal.
ChildExit ==
    /\ child.state = "running"
    /\ \E st \in [code : {{n} : n \in ExitCodes}, signal : {{}}]
                 \cup [code : {{}}, signal : {{s} : s \in Signals}] :
        child' = [child EXCEPT !.state = "exited", !.status = st]
    /\ UNCHANGED <<first_run, other, file, opt, pc, dirents, inodes, before, file_permissions,
                   scratch_file, constructed_command, result, code, message,
                   exitCode, failed>>

\* ------------------------------------------------------- run, continued
\* Variant: every exit code counts as success.
StatusBranch_AnyCode(status, no_op) ==
    IF status.code # {} THEN (IF ~no_op THEN "commit" ELSE "ok_0")
    ELSE "signal"

\* Variant: a child killed by a signal is taken for one that exited with 0.
StatusBranch_SignalOk(status, no_op) ==
    IF status.code \in {{0}, {}} THEN (IF ~no_op THEN "commit" ELSE "ok_0")
    ELSE "ok_code"

\* Variant: the no-op flag is not consulted.
StatusBranch_IgnoreNoOp(status, no_op) ==
    IF status.code = {0} THEN "commit"
    ELSE IF status.code # {} THEN "ok_code"
    ELSE "signal"

\* The branch run takes on the child's exit status.
StatusBranch(status, no_op) ==
    IF status.code = {0} THEN (IF ~no_op THEN "commit" ELSE "ok_0")
    ELSE IF status.code # {} THEN "ok_code"
    ELSE "signal"

\* Variant: the child is spawned and its status read without waiting for it.
Reaped_NoWait(c) == c.state \in {"running", "exited"}

\* command.status() returns once the child it spawned has ended.
Reaped(c) == c.state = "exited"

\* The wait half of command.status(), then `match child_result.code()` and
\* `if !opt.no_op`.
CheckStatus ==
    /\ pc = "wait"
    /\ Reaped(child)
    /\ LET branch == StatusBranch(child.status, opt.no_op) IN
       IF branch = "commit"
       THEN /\ pc' = "persist"
            /\ UNCHANGED <<result, dirents, scratch_file>>
       ELSE IF branch = "ok_0" THEN Return(Ok(0))
       ELSE IF branch = "ok_code"
            THEN Return(Ok(CHOOSE n \in child.status.code : TRUE))
       ELSE Return(ErrSignal(child.status.signal))
    /\ UNCHANGED <<first_run, other, file, opt, inodes, before, file_permissions, constructed_command,
                   child, code, message, exitCode, failed>>

\* scratch_file.persist(path): one rename(2). On failure the error carries
\* the NamedTempFile back, so run's return does not drop it.
Persist ==
    /\ pc = "persist"
    /\ \E ok \in BOOLEAN :
        IF ok /\ ScratchPresent
        THEN /\ dirents' = Rename(dirents, CHOOSE p \in scratch_file.path : TRUE,
                                  TargetPath)
             /\ scratch_file' = [scratch_file EXCEPT !.owner = "gone"]
             /\ pc' = "set_permissions"
             /\ UNCHANGED <<result, failed>>
        ELSE /\ result' = Err("Persist")
             /\ failed' = "persist"
             /\ scratch_file' = [scratch_file EXCEPT !.owner = "err"]
             /\ pc' = "main"
             /\ UNCHANGED dirents
    /\ UNCHANGED <<first_run, other, file, opt, inodes, before, file_permissions, constructed_command,
                   child, code, message, exitCode>>

\* Variant: the permission bits are not applied.
Chmod_Skip(ino, i, m) == ino

\* fchmod(2) through a handle of inode i
Chmod(ino, i, m) == [ino EXCEPT ![i].perm = m]

\* .set_permissions(file_permissions) on the persisted File, then Ok(0)
SetPermissions ==
    /\ pc = "set_permissions"
    /\ \E ok \in BOOLEAN :
        IF ok
        THEN /\ inodes' = Chmod(inodes, "tmp", CHOOSE m \in file_permissions : TRUE)
             /\ Return(Ok(0))
             /\ UNCHANGED failed
        ELSE /\ Return(Err("SetPermissions"))
             /\ failed' = "set_permissions"
             /\ UNCHANGED inodes
    /\ UNCHANGED <<first_run, other, file, opt, before, file_permissions, constructed_command, child,
                   code, message, exitCode>>

\* ----------------------------------------------------------------- main
\* Variant: a nonzero exit code of the child is remapped to 1.
MainCode_Remap(res) ==
    IF res.tag = "Ok" /\ res.code = {0} THEN 0 ELSE 1

\* Variant: a failed permission restore is not fatal.
MainCode_PermNonFatal(res) ==
    IF res.tag = "Ok" THEN CHOOSE n \in res.code : TRUE
    ELSE IF res.err = "SetPermissions" THEN 0
    ELSE 1

\* `let code = match result { Ok(0) => 0, Ok(code) => code, Err(_) => 1 }`
MainCode(res) ==
    IF res.tag = "Ok" THEN CHOOSE n \in res.code : TRUE ELSE 1

\* The line main prints to standard error.
MainMessage(res) ==
    IF res.tag = "Ok"
    THEN IF res.code = {0} THEN "" ELSE "Command exited with status code; skipping write"
    ELSE IF res.err = "Open" THEN "Error opening for read"
    ELSE IF res.err = "CreateTemp" THEN "Error creating temporary file"
    ELSE IF res.err = "DupTemp" THEN "Error creating duplicate file descriptor"
    ELSE IF res.err = "SpawnChild" THEN "Error spawning command"
    ELSE IF res.err = "Signal"
         THEN IF res.signal = {} THEN "Command terminated from unknown signal"
              ELSE "Command terminated from signal"
    ELSE IF res.err = "Persist" THEN "Error persisting temporary file"
    ELSE IF res.err = "NoSudoUser" THEN "error reading SUDO_USER"
    ELSE IF res.err = "GetPermissions" THEN "Error getting file permissions"
    ELSE "command completed successfully, but error restoring file permissions to the new file"

\* The match in main; the error value, and a NamedTempFile a Persist error
\* carries, is dropped at the end of its arm.
MainMatch ==
    /\ pc = "main"
    /\ code' = {MainCode(result)}
    /\ message' = MainMessage(result)
    /\ dirents' = DropTemp(dirents, scratch_file, "err")
    /\ scratch_file' = Dropped(scratch_file, "err")
    /\ pc' = "exit"
    /\ UNCHANGED <<first_run, other, file, opt, inodes, before, file_permissions, constructed_command,
                   child, result, exitCode, failed>>

\* exit(code)
Exit ==
    /\ pc = "exit"
    /\ exitCode' = {(CHOOSE n \in code : TRUE) % ExitWidth}
    /\ pc' = "exited"
    /\ UNCHANGED <<first_run, other, file, opt, dirents, inodes, before, file_permissions, scratch_file,
                   constructed_command, child, result, code, message, failed>>

Next ==
    \/ Open
    \/ Metadata
    \/ CreateTemp
    \/ DupTemp
    \/ BuildCommand
    \/ Spawn
    \/ ChildWrite
    \/ ChildUnlink
    \/ ChildExit
    \/ CheckStatus
    \/ Persist
    \/ SetPermissions
    \/ MainMatch
    \/ Exit

Spec == Init /\ [][Next]_vars

\* =================================================================
\* Two runs in succession, with a filter as the command
\* =================================================================
\* The tool is run twice on the same target with the same options. The
\* command is a filter named by its first word; it reads its stdin to the end,
\* writes the filtered bytes to its stdout and exits with 0.
Filters == {"cat", "head", "rev"}
FilterContents == UNION {[1..k -> Bytes] : k \in 0..MaxLen}

Reverse(x) == [i \in 1..Len(x) |-> x[Len(x) + 1 - i]]

\* cat copies, head (-c 1) keeps the first byte, rev reverses.
Apply(f, x) ==
    CASE f = "cat" -> x
      [] f = "head" -> (IF x = <<>> THEN <<>> ELSE <<x[1]>>)
      [] f = "rev" -> Reverse(x)

Idempotent(f) == \A x \in FilterContents : Apply(f, Apply(f, x)) = Apply(f, x)

\* Variant: the handle given to the child was read from before, so the child
\* starts after the first byte.
ChildInput_Offset(ino) ==
    IF ino["orig"].content = <<>> THEN <<>> ELSE Tail(ino["orig"].content)

\* What the child reads from the opened target: the handle was never read
\* from, so all of the file.
ChildInput(ino) == ino["orig"].content

FilterOpts ==
    [no_op : {FALSE}, no_env : BOOLEAN, temp_dir : BOOLEAN, dir : {{}},
     shell_mode : {FALSE}, drop_root : {FALSE}, stdin : {FALSE},
     command : {<<f>> : f \in Filters}]

InitFilter ==
    /\ opt \in FilterOpts
    /\ pc = "open"
    /\ \E c \in FilterContents, m \in Perms :
        /\ dirents = [p \in AllPaths |-> IF p = TargetPath THEN "orig" ELSE "none"]
        /\ inodes = [i \in {"orig", "tmp"} |->
                        IF i = "orig"
                        THEN [content |-> c, perm |-> m, live |-> TRUE]
                        ELSE [content |-> <<>>, perm |-> TempPerm, live |-> FALSE]]
        /\ before = [exists |-> TRUE, content |-> c, perm |-> m]
    /\ file_permissions = {}
    /\ scratch_file = [path |-> {}, owner |-> "none"]
    /\ constructed_command = <<>>
    /\ child = NoChild
    /\ result = Pending
    /\ code = {}
    /\ message = ""
    /\ exitCode = {}
    /\ failed = ""
    /\ first_run = {}
    /\ file = "none"
    /\ other = {}

\* The filter writes the next byte of its output to its stdout.
FilterWrite ==
    /\ child.state = "running"
    /\ LET out == Apply(child.argv[1], ChildInput(inodes)) IN
        /\ Len(child.written) < Len(out)
        /\ inodes' = [inodes EXCEPT !["tmp"].content =
                         Append(@, out[Len(child.written) + 1])]
        /\ child' = [child EXCEPT !.written = Append(@, out[Len(child.written) + 1])]
    /\ UNCHANGED <<first_run, other, file, opt, pc, dirents, before, file_permissions, scratch_file,
                   constructed_command, result, code, message, exitCode, failed>>

\* The filter has written all of its output and exits with 0.
FilterExit ==
    /\ child.state = "running"
    /\ child.written = Apply(child.argv[1], ChildInput(inodes))
    /\ child' = [child EXCEPT !.state = "exited",
                              !.status = [code |-> {0}, signal |-> {}]]
    /\ UNCHANGED <<first_run, other, file, opt, pc, dirents, inodes, before, file_permissions,
                   scratch_file, constructed_command, result, code, message,
                   exitCode, failed>>

\* The tool is started again on the same target: a new process, starting
\* main from the top. What the first run left at the target path is the
\* second run's original file.
SecondRun ==
    /\ pc = "exited"
    /\ first_run = {}
    /\ first_run' = {[exitCode |-> exitCode,
                      exists |-> TargetExists,
                      content |-> IF TargetExists THEN TargetFile.content ELSE <<>>,
                      perm |-> IF TargetExists THEN TargetFile.perm ELSE TempPerm]}
    /\ dirents' = [p \in AllPaths |->
                     IF p = TargetPath /\ TargetExists THEN "orig" ELSE dirents[p]]
    /\ inodes' = IF dirents[TargetPath] = "tmp"
                 THEN [inodes EXCEPT !["orig"] = inodes["tmp"],
                                     !["tmp"] = [content |-> <<>>, perm |-> TempPerm,
                                                 live |-> FALSE]]
                 ELSE inodes
    /\ pc' = "open"
    /\ file_permissions' = {}
    /\ scratch_file' = [path |-> {}, owner |-> "none"]
    /\ constructed_command' = <<>>
    /\ child' = NoChild
    /\ result' = Pending
    /\ code' = {}
    /\ message' = ""
    /\ exitCode' = {}
    /\ failed' = ""
    /\ file' = "none"
    /\ UNCHANGED <<opt, before, other>>

NextFilter ==
    \/ Open
    \/ Metadata
    \/ CreateTemp
    \/ DupTemp
    \/ BuildCommand
    \/ Spawn
    \/ FilterWrite
    \/ FilterExit
    \/ CheckStatus
    \/ Persist
    \/ SetPermissions
    \/ MainMatch
    \/ Exit
    \/ SecondRun

SpecFilter == InitFilter /\ [][NextFilter]_vars

\* =================================================================
\* Two runs at once on the same target
\* =================================================================
\* Two processes of the tool run with the same options on one file system.
\* The variables hold the locals of the run that takes the next step, seen
\* from that run: its scratch file is inode "tmp" under ScratchName, the
\* other run's is inode "tmp2" under OtherScratchName (tempfile creates with
\* O_EXCL under a random name, so two scratch files that exist at once have
\* different names). Switch hands the processor to the other run.
OtherScratchName == ".rewrite-tmp-" \o "YYYYYY" \o "-" \o FileName
OtherScratchPath(d) == <<d, OtherScratchName>>
ConcPaths == AllPaths \cup {OtherScratchPath(d) : d \in Dirs}

SwapIno(i) == IF i = "tmp" THEN "tmp2" ELSE IF i = "tmp2" THEN "tmp" ELSE i
SwapPath(p) ==
    IF p[2] = ScratchName THEN <<p[1], OtherScratchName>>
    ELSE IF p[2] = OtherScratchName THEN <<p[1], ScratchName>>
    ELSE p

\* The two runs are "A" and "B"; `other' holds the locals of the run that is
\* not taking steps, under the field id its name.
OtherId(i) == IF i = "A" THEN "B" ELSE "A"
Me == OtherId((CHOOSE o \in other : TRUE).id)

Locals ==
    [id |-> Me, pc |-> pc, file |-> file, file_permissions |-> file_permissions,
     scratch_file |-> scratch_file, constructed_command |-> constructed_command,
     child |-> child, result |-> result, code |-> code, message |-> message,
     exitCode |-> exitCode, failed |-> failed]

InitLocals ==
    [id |-> "B", pc |-> "open", file |-> "none", file_permissions |-> {},
     scratch_file |-> [path |-> {}, owner |-> "none"], constructed_command |-> <<>>,
     child |-> NoChild, result |-> Pending, code |-> {}, message |-> "",
     exitCode |-> {}, failed |-> ""]

ConcOpts ==
    [no_op : {FALSE}, no_env : {TRUE}, temp_dir : {FALSE}, dir : {{}},
     shell_mode : {FALSE}, drop_root : {FALSE}, stdin : {FALSE},
     command : {<<"tr">>}]

InitConc ==
    /\ opt \in ConcOpts
    /\ pc = "open"
    /\ \E c \in {<<"a">>}, m \in {"rw-r--r--"} :
        /\ dirents = [p \in ConcPaths |-> IF p = TargetPath THEN "orig" ELSE "none"]
        /\ inodes = [i \in {"orig", "tmp", "tmp2"} |->
                        IF i = "orig"
                        THEN [content |-> c, perm |-> m, live |-> TRUE]
                        ELSE [content |-> <<>>, perm |-> TempPerm, live |-> FALSE]]
        /\ before = [exists |-> TRUE, content |-> c, perm |-> m]
    /\ file_permissions = {}
    /\ scratch_file = [path |-> {}, owner |-> "none"]
    /\ constructed_command = <<>>
    /\ child = NoChild
    /\ result = Pending
    /\ code = {}
    /\ message = ""
    /\ exitCode = {}
    /\ failed = ""
    /\ first_run = {}
    /\ file = "none"
    /\ other = {InitLocals}

\* The children of the two runs end by themselves, with 0 or with 1.
ConcChildExit ==
    /\ ChildExit
    /\ child'.status.signal = {}
    /\ child'.status.code \subseteq {0, 1}

\* The other run takes the next steps: the locals change places and the file
\* system is seen from the other run.
Switch ==
    /\ \E o \in other :
        /\ pc' = o.pc
        /\ file' = o.file
        /\ file_permissions' = o.file_permissions
        /\ scratch_file' = o.scratch_file
        /\ constructed_command' = o.constructed_command
        /\ child' = o.child
        /\ result' = o.result
        /\ code' = o.code
        /\ message' = o.message
        /\ exitCode' = o.exitCode
        /\ failed' = o.failed
    /\ other' = {[Locals EXCEPT !.file = SwapIno(@)]}
    /\ dirents' = [p \in DOMAIN dirents |-> SwapIno(dirents[SwapPath(p)])]
    /\ inodes' = [i \in DOMAIN inodes |-> inodes[SwapIno(i)]]
    /\ UNCHANGED <<opt, before, first_run>>

NextConc ==
    \/ Open
    \/ Metadata
    \/ CreateTemp
    \/ DupTemp
    \/ BuildCommand
    \/ Spawn
    \/ ChildWrite
    \/ ConcChildExit
    \/ CheckStatus
    \/ Persist
    \/ SetPermissions
    \/ MainMatch
    \/ Exit
    \/ Switch

SpecConc == InitConc /\ [][NextConc]_vars

\* =================================================================
\* Properties
\* =================================================================
Ended == pc = "exited"
Returned == pc \in {"main", "exit", "exited"}
ExitedWith0 == child.state = "exited" /\ child.status.code = {0}
ExitedNonzero == child.state = "exited" /\ child.status.code \notin {{}, {0}}
Signaled == child.state = "exited" /\ child.status.code = {}

\* The target path still names the original file, content and mode as before.
TargetUntouched ==
    /\ dirents[TargetPath] = "orig"
    /\ inodes["orig"].content = before.content
    /\ inodes["orig"].perm = before.perm

\* No directory holds a file under the scratch name.
NoScratchLeft == \A d \in Dirs : dirents[ScratchPath(d)] = "none"

\* The RewriteError variant each failing call is reported as.
ErrOf(f) ==
    CASE f = "open" -> "Open"
      [] f = "metadata" -> "GetPermissions"
      [] f = "create_temp" -> "CreateTemp"
      [] f = "dup" -> "DupTemp"
      [] f = "sudo_user" -> "NoSudoUser"
      [] f = "spawn" -> "SpawnChild"
      [] f = "persist" -> "Persist"
      [] f = "set_permissions" -> "SetPermissions"

\* C1: when the child exits with code 0, no-op is off and neither the commit
\* nor the permission restore fails, then at the end of the run the target
\* path holds exactly the bytes the child wrote to its stdout, with the
\* permission bits the target had when it was opened.
Thm_C1 ==
    (Ended /\ ExitedWith0 /\ ~opt.no_op /\ failed = "")
        => /\ TargetExists
           /\ TargetFile.content = child.written
           /\ TargetFile.perm = before.perm

Wit_C1 ==
    /\ Ended /\ ExitedWith0 /\ ~opt.no_op /\ failed = ""
    /\ dirents[TargetPath] = "tmp"
    /\ Len(child.written) > 1
    /\ child.written # before.content
    /\ before.perm # TempPerm

\* C2: once the child has exited with a nonzero code, the target path keeps
\* the original file with its content and permissions, persist and
\* set_permissions are never executed, and at the end of the run no scratch
\* file remains.
Thm_C2 ==
    ExitedNonzero
        => /\ TargetUntouched
           /\ pc \notin {"persist", "set_permissions"}
           /\ failed \notin {"persist", "set_permissions"}
           /\ inodes["tmp"].perm = TempPerm
           /\ (Ended => NoScratchLeft)

Wit_C2 ==
    /\ Ended /\ ExitedNonzero /\ ~opt.no_op
    /\ child.written # <<>>
    /\ child.written # before.content

\* C3: when the child is killed by a signal or cannot be spawned, the target
\* is untouched, the run returns the hard error Signal or SpawnChild, and at
\* the end of the run no scratch file remains.
Thm_C3 ==
    (failed = "spawn" \/ Signaled)
        => /\ TargetUntouched
           /\ pc \notin {"persist", "set_permissions"}
           /\ (Returned =>
                 /\ result.tag = "Err"
                 /\ result.err = (IF failed = "spawn" THEN "SpawnChild" ELSE "Signal")
                 /\ (Signaled => result.signal = child.status.signal))
           /\ (Ended => NoScratchLeft /\ exitCode = {1})

Wit_C3 ==
    /\ Ended /\ Signaled /\ ~opt.no_op
    /\ child.written # <<>>
    /\ result = ErrSignal({9})

\* C4: with the no-op flag the target path, content and permissions are the
\* same in every state of the run, whatever the child does; a child that was
\* spawned has the scratch file's duplicate as its stdout and the scratch
\* file holds what it wrote; at the end of the run no scratch file remains.
Thm_C4 ==
    opt.no_op
        => /\ dirents[TargetPath] = (IF before.exists THEN "orig" ELSE "none")
           /\ inodes["orig"].content = before.content
           /\ inodes["orig"].perm = before.perm
           /\ pc \notin {"persist", "set_permissions"}
           /\ (child.state # "none" =>
                 /\ child.stdout = "scratch_dup"
                 /\ scratch_file.path # {}
                 /\ inodes["tmp"].live
                 /\ inodes["tmp"].content = child.written)
           /\ (Ended /\ result = Ok(0) => child.state = "exited")
           /\ (Ended => NoScratchLeft)

Wit_C4 ==
    /\ opt.no_op /\ Ended /\ ExitedWith0
    /\ result = Ok(0)
    /\ child.written \notin {<<>>, before.content}

\* C5: the exit status of the process is 0 when run returned Ok(0), the
\* child's own code n when the child exited with n # 0, and 1 for each
\* internal error and for a child killed by a signal.
Thm_C5 ==
    Ended
        => /\ (result = Ok(0) => exitCode = {0})
           /\ (ExitedNonzero => result.tag = "Ok" /\ exitCode = child.status.code)
           /\ (failed # "" =>
                 /\ result.tag = "Err"
                 /\ result.err = ErrOf(failed)
                 /\ exitCode = {1})
           /\ (Signaled => result.err = "Signal" /\ exitCode = {1})

Wit_C5 ==
    /\ Ended /\ ExitedNonzero
    /\ child.status.code # {1}
    /\ exitCode = child.status.code

\* C6: in every state a reader of the target path finds the complete
\* original content or the complete output of the child, which has ended,
\* never a missing or half-written file; what the path holds changes only in
\* the persist step, and a failed persist leaves the original in place.
TargetView ==
    IF TargetExists THEN <<dirents[TargetPath], TargetFile.content>>
    ELSE <<"none", <<>>>>

Thm_C6 ==
    /\ [](before.exists =>
            /\ TargetExists
            /\ \/ /\ dirents[TargetPath] = "orig"
                  /\ TargetFile.content = before.content
               \/ /\ dirents[TargetPath] = "tmp"
                  /\ child.state = "exited"
                  /\ TargetFile.content = child.written
            /\ (failed = "persist" => dirents[TargetPath] = "orig"))
    /\ [][TargetView' # TargetView
            => pc = "persist" /\ pc' = "set_permissions"]_vars

Wit_C6 ==
    /\ pc = "set_permissions"
    /\ dirents[TargetPath] = "tmp"
    /\ Len(child.written) > 1
    /\ child.written # before.content

\* C7: when the process has exited, no file is left under the scratch name:
\* the scratch file was renamed onto the target or deleted, on every path.
Thm_C7 ==
    Ended
        => /\ NoScratchLeft
           /\ scratch_file.owner \in {"none", "gone"}
           /\ (inodes["tmp"].live =>
                 \A p \in AllPaths : dirents[p] = "tmp" => p = TargetPath)

Wit_C7 ==
    /\ Ended
    /\ failed = "persist"
    /\ opt.no_env
    /\ child.written # <<>>

\* C8: in stdin mode with the command omitted, a run in which no system call
\* fails ends with exit code 0 and the target holding the bytes of the
\* standard input.
CE_C8 ==
    (Ended /\ opt.stdin /\ opt.command = <<>> /\ ~opt.shell_mode
           /\ ~opt.drop_root /\ ~opt.no_op /\ failed = "")
        => /\ exitCode = {0}
           /\ TargetExists
           /\ TargetFile.content = StdinData

Thm_C10 ==
    failed = "set_permissions"
        => /\ dirents[TargetPath] = "tmp"
           /\ TargetFile.content = child.written
           /\ result = Err("SetPermissions")
           /\ (pc \in {"exit", "exited"} =>
                 /\ code = {1}
                 /\ message = MainMessage(Err("SetPermissions"))
                 /\ \A f \in {"open", "metadata", "create_temp", "dup", "sudo_user",
                              "spawn", "persist"} :
                        MainMessage(Err(ErrOf(f))) # message)
           /\ (Ended => exitCode = {1})

Wit_C10 ==
    /\ Ended
    /\ failed = "set_permissions"
    /\ child.written \notin {<<>>, before.content}
    /\ exitCode = {1}
\* C11: a spawned child has the opened target as stdin, or the inherited
\* stdin in stdin mode, the duplicate of the scratch handle as stdout and
\* the inherited stderr; the scratch file holds at every moment exactly the
\* bytes the child has written, and so does the target once it is committed.
Thm_C11 ==
    child.state # "none"
        => /\ child.stdin = (IF opt.stdin THEN "inherit" ELSE "target_file")
           /\ child.stdout = "scratch_dup"
           /\ child.stderr = "inherit"
           /\ inodes["tmp"].content = child.written
           /\ (dirents[TargetPath] = "tmp" => TargetFile.content = child.written)

Wit_C11 ==
    /\ Ended /\ ~opt.stdin /\ failed = ""
    /\ child.stdin = "target_file"
    /\ dirents[TargetPath] = "tmp"
    /\ Len(child.written) > 1

\* C13: without the no-env flag the child is given REWRITE_TEMPFILE = the
\* scratch path, REWRITE_OUTPUT = the target path and REWRITE_INPUT = the
\* target path, or "-" in stdin mode; with the flag it is given none of them.
Thm_C13 ==
    child.state # "none"
        => IF opt.no_env
           THEN child.env = {}
           ELSE /\ Cardinality(child.env) = 3
                /\ \E p \in scratch_file.path : <<"REWRITE_TEMPFILE", p>> \in child.env
                /\ <<"REWRITE_OUTPUT", TargetPath>> \in child.env
                /\ <<"REWRITE_INPUT", IF opt.stdin THEN <<"-">> ELSE TargetPath>>
                       \in child.env

Wit_C13 ==
    /\ child.state = "running"
    /\ ~opt.no_env /\ opt.stdin
    /\ <<"REWRITE_INPUT", <<"-">>>> \in child.env

\* C14: a scratch file exists only after the target was opened and its
\* permissions captured; when the open, the capture or the scratch creation
\* fails, run returns that error, the process exits with 1, no scratch file
\* and no child ever existed, and the target path is as before the run: not
\* changed, and not created when it was missing.
Thm_C14 ==
    /\ (scratch_file.path # {} => before.exists /\ file_permissions = {before.perm})
    /\ (failed \in {"open", "metadata", "create_temp"}
          => /\ Returned
             /\ result.tag = "Err" /\ result.err = ErrOf(failed)
             /\ scratch_file.path = {} /\ ~inodes["tmp"].live /\ NoScratchLeft
             /\ child.state = "none"
             /\ dirents[TargetPath] = (IF before.exists THEN "orig" ELSE "none")
             /\ inodes["orig"].content = before.content
             /\ inodes["orig"].perm = before.perm
             /\ inodes["orig"].live = before.exists
             /\ (Ended => exitCode = {1}))
    /\ (~before.exists => ~TargetExists /\ (Returned => failed = "open"))

Wit_C14 ==
    /\ Ended /\ failed = "open"
    /\ ~before.exists /\ opt.stdin
    /\ exitCode = {1}

\* C15: the control thread only moves forward through open, metadata,
\* create_temp, dup, build, spawn, wait, persist, set_permissions, main, exit;
\* a child is spawned once, from the spawn step; the persist step is entered
\* only after the child exited with 0 and with no-op off; set_permissions is
\* entered only from a persist that renamed the scratch file onto the target.
Rank(p) ==
    CASE p = "open" -> 0 [] p = "metadata" -> 1 [] p = "create_temp" -> 2
      [] p = "dup" -> 3 [] p = "build" -> 4 [] p = "spawn" -> 5
      [] p = "wait" -> 6 [] p = "persist" -> 7 [] p = "set_permissions" -> 8
      [] p = "main" -> 9 [] p = "exit" -> 10 [] p = "exited" -> 11

Thm_C15 ==
    /\ [](/\ (pc = "persist" => ExitedWith0 /\ ~opt.no_op)
          /\ (pc = "set_permissions" =>
                ExitedWith0 /\ ~opt.no_op /\ dirents[TargetPath] = "tmp")
          /\ (dirents[TargetPath] = "tmp" => ExitedWith0 /\ ~opt.no_op)
          /\ (child.state # "none" => Rank(pc) >= Rank("wait")))
    /\ [][/\ (pc' # pc => Rank(pc') > Rank(pc))
          /\ (child'.state = "running" /\ child.state # "running"
                => child.state = "none" /\ pc = "spawn")
          /\ (child.state = "exited" => child' = child)
          /\ (pc' = "set_permissions" /\ pc # "set_permissions"
                => pc = "persist" /\ dirents[TargetPath] = "orig")]_vars

Wit_C15 ==
    /\ pc = "exit"
    /\ result = Ok(0) /\ ~opt.no_op
    /\ dirents[TargetPath] = "tmp"
    /\ child.written # <<>>

Thm_C17 ==
    Returned => child.state \in {"none", "exited"}

Wit_C17 ==
    /\ pc = "main"
    /\ Signaled
    /\ result.err = "Signal"
    /\ child.written # <<>>

\* C18: when the child has removed the scratch path and exits with n # 0,
\* the cleanup on return changes nothing: run returns Ok(n), the process
\* exits with n, the target path keeps the original file; and in every run a
\* scratch path that is gone never comes back, so it is deleted at most once.
Thm_C18 ==
    /\ []((child.unlinked /\ ExitedNonzero /\ Returned)
            => /\ result = Ok(CHOOSE n \in child.status.code : TRUE)
               /\ TargetUntouched
               /\ NoScratchLeft
               /\ (Ended => exitCode = child.status.code))
    /\ [][(scratch_file.path # {} /\ ~ScratchPresent)
            => (~ScratchPresent' /\ dirents'[TargetPath] = dirents[TargetPath])]_vars

Wit_C18 ==
    /\ Ended
    /\ child.unlinked /\ ExitedNonzero
    /\ exitCode = {2}
    /\ child.written # <<>>

\* C20: the process exits with 0 exactly when the child exited with 0 and
\* either no-op is set or neither the commit nor the permission restore
\* failed; with no-op off, exit status 0 means the target path holds the
\* child's output with the original permissions, and a run that left the
\* original file at the target path exits with a nonzero status.
Thm_C20 ==
    Ended
        => /\ (exitCode = {0} <=> (ExitedWith0 /\ (opt.no_op \/ failed = "")))
           /\ (~opt.no_op /\ exitCode = {0}
                 => /\ dirents[TargetPath] = "tmp"
                    /\ TargetFile.content = child.written
                    /\ TargetFile.perm = before.perm)
           /\ (~opt.no_op /\ dirents[TargetPath] # "tmp" => exitCode # {0})

Wit_C20 ==
    /\ Ended /\ exitCode = {0} /\ ~opt.no_op
    /\ child.written \notin {<<>>, before.content}
    /\ before.perm # TempPerm
    /\ TargetFile.perm = before.perm

\* C19: of two runs at once on one target and one scratch directory, the
\* scratch files are different files under different names; the target path
\* always names a whole file: the original one while no run has renamed,
\* else the scratch file of a run whose child exited with 0, holding all
\* that child wrote and nothing else; the target path changes only by the
\* rename of a run, to that run's file, so the last rename decides; and once
\* both runs have ended no scratch path is left and, if a run renamed, the
\* target is not the original file.
OtherRun == CHOOSE o \in other : TRUE
Renamed(r) ==
    \/ r.pc = "set_permissions"
    \/ r.failed = "set_permissions"
    \/ r.result = Ok(0)
BothEnded == Ended /\ OtherRun.pc = "exited"

Thm_C19 ==
    /\ [](/\ scratch_file.path \cap {SwapPath(p) : p \in OtherRun.scratch_file.path} = {}
          /\ \A d \in Dirs : /\ dirents[ScratchPath(d)] \in {"none", "tmp"}
                              /\ dirents[OtherScratchPath(d)] \in {"none", "tmp2"}
          /\ dirents[TargetPath] \in {"orig", "tmp", "tmp2"}
          /\ (dirents[TargetPath] = "orig"
                => /\ TargetFile.content = before.content
                   /\ ~Renamed(Locals) /\ ~Renamed(OtherRun))
          /\ (dirents[TargetPath] = "tmp"
                => /\ Renamed(Locals)
                   /\ ExitedWith0
                   /\ TargetFile.content = child.written)
          /\ (dirents[TargetPath] = "tmp2"
                => /\ Renamed(OtherRun)
                   /\ OtherRun.child.state = "exited"
                   /\ OtherRun.child.status.code = {0}
                   /\ TargetFile.content = OtherRun.child.written)
          /\ (BothEnded
                => /\ \A d \in Dirs : /\ dirents[ScratchPath(d)] = "none"
                                       /\ dirents[OtherScratchPath(d)] = "none"
                   /\ TargetFile.live))
    /\ [][other' = other
            => /\ (dirents'[TargetPath] # dirents[TargetPath]
                     => pc = "persist" /\ dirents'[TargetPath] = "tmp")
               /\ (~Renamed(Locals) /\ Renamed(Locals)'
                     => dirents'[TargetPath] = "tmp")]_vars

Wit_C19 ==
    /\ other # {}
    /\ BothEnded
    /\ Renamed(Locals) /\ Renamed(OtherRun)
    /\ exitCode = {0} /\ OtherRun.exitCode = {0}
    /\ Len(child.written) = MaxLen
    /\ OtherRun.child.written \notin {<<>>, child.written, before.content}
    /\ dirents[TargetPath] = "tmp2"
    /\ Me = "A"

\* C12: with an idempotent filter as the command, when two runs in
\* succession both exit with 0, the target has after the second run the
\* content and permissions it had after the first: the filtered original
\* content and the original permissions.
Thm_C12 ==
    (Ended /\ first_run # {} /\ exitCode = {0} /\ Idempotent(opt.command[1]))
        => \A r \in first_run :
              r.exitCode = {0}
                => /\ TargetExists
                   /\ TargetFile.content = r.content
                   /\ TargetFile.perm = r.perm
                   /\ r.content = Apply(opt.command[1], before.content)
                   /\ r.perm = before.perm

Wit_C12 ==
    /\ Ended /\ first_run # {} /\ exitCode = {0}
    /\ opt.command = <<"head">>
    /\ Len(before.content) > 1
    /\ before.perm # TempPerm
    /\ \A r \in first_run : r.exitCode = {0} /\ r.content # before.content
====
